---- MODULE Spec2Model ----
(***************************************************************************)
(* The command recording core of the dx11 backend (src/backend/dx11/src/   *)
(* lib.rs): the buffered recorder CommandList and the native deferred      *)
(* recorder DeferredContext, both implementing command::Parser.            *)
(***************************************************************************)
EXTENDS Integers, Sequences, FiniteSets, TLC

\* ------------------------------------------------------------------ bounds
\* Calls made on one recorder (resets included) in the single-recorder runs.
MaxOps == 2
\* Length of one payload passed to update_buffer / update_texture.
MaxLen == 1
\* Calls made on each recorder when two recorders run side by side.
MaxPairOps == 2
\* Native calls logged for one DeferredContext before it is dropped.
MaxLog == 4

\* ------------------------------------------------------------- input sets
Bytes == {1, 2}
Datas == UNION {[1..n -> Bytes] : n \in 0..MaxLen}
NoFace == "None"
\* (buf, offset) of the update_buffer calls.
BufferArgs == {<<"B1", 0>>, <<"B2", 8>>}
\* (tex, kind, face, image) of the update_texture calls; levels is the mip
\* count of the native texture.
TextureArgs ==
    {<<[id |-> "T1", levels |-> 2], "D2", NoFace, [mipmap |-> 0, width |-> 2]>>,
     <<[id |-> "T2", levels |-> 2], "Cube", "PosY", [mipmap |-> 1, width |-> 1]>>}
\* Commands without payload: opaque records, recorded and replayed verbatim.
OpaqueCommands == {[tag |-> "BindPipeline"], [tag |-> "Draw"]}
Recorders == {1, 2}
\* Payloads of the runs that do not vary the payload length.
FixedDatas == {<<1>>, <<2, 1>>}
\* The caller's buffer after it was freed.
Freed == [live |-> FALSE, bytes |-> <<>>]
Held(data) == [live |-> TRUE, bytes |-> data]

VARIABLES
    rec,        \* rec[r]: CommandList r, [cmds |-> field .0, data |-> field .1]
    calls,      \* calls[r]: the Parser calls made on CommandList r, in order
    caller_buf, \* the caller's memory behind `data: &[u8]`
    replayed,   \* the native calls of the replay just made, or NoReplay
    dc,         \* the DeferredContext: [list |-> field .1, log |-> native calls]
    dc_alive    \* the DeferredContext was constructed and not yet dropped

vars == <<rec, calls, caller_buf, replayed, dc, dc_alive>>

\* ------------------------------------------------------ command::DataBuffer
DataBuffer_new == <<>>

DataBuffer_reset(buf) == <<>>

\* Copies data to the end of the store; the pointer names the copy.
DataBuffer_add(buf, data) ==
    [buf |-> buf \o data, ptr |-> [offset |-> Len(buf), size |-> Len(data)]]

DataBuffer_get(buf, ptr) == SubSeq(buf, ptr.offset + 1, ptr.offset + ptr.size)

\* --------------------------------------------------------- command::Command
Command_UpdateBuffer(buf, ptr, offset) ==
    [tag |-> "UpdateBuffer", buf |-> buf, ptr |-> ptr, offset |-> offset]

Command_UpdateTexture(tex, kind, face, ptr, image) ==
    [tag |-> "UpdateTexture", tex |-> tex, kind |-> kind, face |-> face,
     ptr |-> ptr, image |-> image]

\* ------------------------------------------------------------- CommandList
CommandList_new == [cmds |-> <<>>, data |-> DataBuffer_new]

CommandList_reset_keeps_data(self) == [cmds |-> <<>>, data |-> self.data]

CommandList_reset(self) ==
    [cmds |-> <<>>, data |-> DataBuffer_reset(self.data)]

CommandList_parse_front(self, com) ==
    [self EXCEPT !.cmds = <<com>> \o @]

CommandList_parse(self, com) ==
    [self EXCEPT !.cmds = Append(@, com)]

CommandList_update_buffer_overwrite(self, buf, data, offset) ==
    [cmds |-> Append(self.cmds,
                     Command_UpdateBuffer(buf, [offset |-> 0, size |-> Len(data)], offset)),
     data |-> data]

CommandList_update_buffer_stale_ptr(self, buf, data, offset) ==
    LET a == DataBuffer_add(self.data, data)
    IN  [cmds |-> Append(self.cmds,
                         Command_UpdateBuffer(buf, [offset |-> Len(a.buf), size |-> Len(data)], offset)),
         data |-> a.buf]

CommandList_update_buffer_no_offset(self, buf, data, offset) ==
    LET a == DataBuffer_add(self.data, data)
    IN  [cmds |-> Append(self.cmds, Command_UpdateBuffer(buf, a.ptr, 0)),
         data |-> a.buf]

CommandList_update_buffer(self, buf, data, offset) ==
    LET a == DataBuffer_add(self.data, data)
    IN  [cmds |-> Append(self.cmds, Command_UpdateBuffer(buf, a.ptr, offset)),
         data |-> a.buf]

CommandList_update_texture(self, tex, kind, face, data, image) ==
    LET a == DataBuffer_add(self.data, data)
    IN  [cmds |-> Append(self.cmds, Command_UpdateTexture(tex, kind, face, a.ptr, image)),
         data |-> a.buf]

\* ------------------------------------------------------------------ execute
\* A cube face's array slice.
FaceIndex(face) == IF face = "PosY" THEN 2 ELSE 0

\* The native subresource a texture update addresses.
Subresource(tex, face, image) ==
    IF face = NoFace THEN image.mipmap
    ELSE FaceIndex(face) * tex.levels + image.mipmap

\* Each execute function issues one native call on the context ctx, which is
\* modelled by the sequence of the calls made on it.
execute_update_buffer(ctx, buf, data, offset) ==
    Append(ctx, [on |-> "ctx", call |-> "UpdateSubresource", res |-> buf,
                 dst |-> offset, len |-> Len(data), bytes |-> data])

execute_update_texture(ctx, tex, kind, face, data, image) ==
    Append(ctx, [on |-> "ctx", call |-> "UpdateSubresource", res |-> tex.id,
                 kind |-> kind, subres |-> Subresource(tex, face, image),
                 region |-> image, bytes |-> data])

execute_process(ctx, com, db) ==
    CASE com.tag = "UpdateBuffer" ->
            execute_update_buffer(ctx, com.buf, DataBuffer_get(db, com.ptr), com.offset)
      [] com.tag = "UpdateTexture" ->
            execute_update_texture(ctx, com.tex, com.kind, com.face,
                                   DataBuffer_get(db, com.ptr), com.image)
      [] OTHER -> Append(ctx, [on |-> "ctx", call |-> com.tag])

\* Replay of a CommandList: its commands, front to back, through
\* execute::process with the list's own data buffer.
RECURSIVE ReplayFrom(_, _, _)
ReplayFrom(ctx, self, i) ==
    IF i > Len(self.cmds) THEN ctx
    ELSE ReplayFrom(execute_process(ctx, self.cmds[i], self.data), self, i + 1)

Replay(self) == ReplayFrom(<<>>, self, 1)

\* --------------------------------------------------------- DeferredContext
None == 0
ClearState == [on |-> "ctx", call |-> "ClearState"]
ReleaseContext == [on |-> "ctx", call |-> "Release"]
ReleaseList(cl) == [on |-> "list", call |-> "Release", id |-> cl]
FinishCommandList(cl) == [on |-> "ctx", call |-> "FinishCommandList", id |-> cl]

DeferredContext_new == [list |-> None, log |-> <<>>]

DeferredContext_reset_keeps_list(self) ==
    IF self.list # None
    THEN [self EXCEPT !.log = self.log \o <<ReleaseList(self.list), ClearState>>]
    ELSE [self EXCEPT !.log = Append(@, ClearState)]

DeferredContext_reset(self) ==
    LET released == IF self.list # None
                    THEN [list |-> None, log |-> Append(self.log, ReleaseList(self.list))]
                    ELSE self
    IN  [released EXCEPT !.log = Append(@, ClearState)]

DeferredContext_parse(self, com) ==
    [self EXCEPT !.log = execute_process(@, com, DataBuffer_new)]

DeferredContext_update_buffer_swapped(self, buf, data, offset) ==
    [self EXCEPT !.log = execute_update_buffer(@, buf, data, Len(data))]

DeferredContext_update_buffer(self, buf, data, offset) ==
    [self EXCEPT !.log = execute_update_buffer(@, buf, data, offset)]

DeferredContext_update_texture(self, tex, kind, face, data, image) ==
    [self EXCEPT !.log = execute_update_texture(@, tex, kind, face, data, image)]

\* The destructor of the field of type ComPtr<ID3D11DeviceContext>: ComPtr is
\* the owning COM pointer of the comptr crate, which releases what it holds.
ComPtr_drop(log) == Append(log, ReleaseContext)

\* Drop::drop, then the drop of the fields.
DeferredContext_drop(self) ==
    [self EXCEPT !.log = ComPtr_drop(Append(@, ReleaseContext))]

\* The lists this recorder finished, in order.
Finished(log) == SelectSeq(log, LAMBDA e : e.call = "FinishCommandList")

\* Finishing the recording into a compiled native command list, which the
\* recorder then holds in its field .1.
DeferredContext_finish(self) ==
    LET cl == Len(Finished(self.log)) + 1
    IN  [list |-> cl, log |-> Append(self.log, FinishCommandList(cl))]

\* ------------------------------------------------- calls on a CommandList
\* Each action is one Parser call on CommandList r; calls[r] logs it with the
\* arguments as they were at call time.
CL_reset(r) ==
    /\ rec' = [rec EXCEPT ![r] = CommandList_reset(@)]
    /\ calls' = [calls EXCEPT ![r] = Append(@, <<"reset">>)]

CL_parse(r, com) ==
    /\ rec' = [rec EXCEPT ![r] = CommandList_parse(@, com)]
    /\ calls' = [calls EXCEPT ![r] = Append(@, <<"parse", com>>)]

CL_update_buffer_shared(r, buf, data, offset) ==
    /\ rec' = [q \in Recorders |->
                 IF q = r THEN CommandList_update_buffer(rec[q], buf, data, offset)
                 ELSE [rec[q] EXCEPT !.data = @ \o data]]
    /\ calls' = [calls EXCEPT ![r] = Append(@, <<"update_buffer", buf, data, offset>>)]

CL_update_buffer(r, buf, data, offset) ==
    /\ rec' = [rec EXCEPT ![r] = CommandList_update_buffer(@, buf, data, offset)]
    /\ calls' = [calls EXCEPT ![r] = Append(@, <<"update_buffer", buf, data, offset>>)]

CL_update_texture(r, tex, kind, face, data, image) ==
    /\ rec' = [rec EXCEPT ![r] = CommandList_update_texture(@, tex, kind, face, data, image)]
    /\ calls' = [calls EXCEPT ![r] =
                   Append(@, <<"update_texture", tex, kind, face, data, image>>)]

\* -------------------------------------------- one CommandList and its caller
NoReplay == [done |-> FALSE, out |-> <<>>]

Init ==
    /\ rec = [r \in Recorders |-> CommandList_new]
    /\ calls = [r \in Recorders |-> <<>>]
    /\ caller_buf = Freed
    /\ replayed = NoReplay
    /\ dc = DeferredContext_new
    /\ dc_alive = TRUE

RecReset ==
    /\ Len(calls[1]) < MaxOps
    /\ CL_reset(1)
    /\ replayed' = NoReplay
    /\ UNCHANGED <<caller_buf, dc, dc_alive>>

RecParse ==
    \E com \in OpaqueCommands :
        /\ Len(calls[1]) < MaxOps
        /\ CL_parse(1, com)
        /\ replayed' = NoReplay
        /\ UNCHANGED <<caller_buf, dc, dc_alive>>

\* The caller fills its buffer with data and passes it; the buffer stays the
\* caller's after the call.
RecUpdateBuffer ==
    \E a \in BufferArgs, data \in Datas :
        /\ Len(calls[1]) < MaxOps
        /\ CL_update_buffer(1, a[1], data, a[2])
        /\ caller_buf' = Held(data)
        /\ replayed' = NoReplay
        /\ UNCHANGED <<dc, dc_alive>>

RecUpdateTexture ==
    \E a \in TextureArgs, data \in Datas :
        /\ Len(calls[1]) < MaxOps
        /\ CL_update_texture(1, a[1], a[2], a[3], data, a[4])
        /\ caller_buf' = Held(data)
        /\ replayed' = NoReplay
        /\ UNCHANGED <<dc, dc_alive>>

\* The caller overwrites every byte of its buffer.
Scribble(data) == [i \in 1..Len(data) |-> IF data[i] = 1 THEN 2 ELSE 1]

CallerMutate ==
    /\ caller_buf.live
    /\ caller_buf' = Held(Scribble(caller_buf.bytes))
    /\ UNCHANGED <<rec, calls, replayed, dc, dc_alive>>

CallerFree ==
    /\ caller_buf.live
    /\ caller_buf' = Freed
    /\ UNCHANGED <<rec, calls, replayed, dc, dc_alive>>

RecReplay ==
    /\ replayed' = [done |-> TRUE, out |-> Replay(rec[1])]
    /\ UNCHANGED <<rec, calls, caller_buf, dc, dc_alive>>

Next ==
    \/ RecReset
    \/ RecParse
    \/ RecUpdateBuffer
    \/ RecUpdateTexture
    \/ CallerMutate
    \/ CallerFree
    \/ RecReplay

Spec == Init /\ [][Next]_vars

\* ------------------------------------------- one DeferredContext, new to drop
DcReset ==
    /\ dc_alive /\ Len(dc.log) < MaxLog
    /\ dc' = DeferredContext_reset(dc)
    /\ UNCHANGED <<rec, calls, caller_buf, replayed, dc_alive>>

DcParse ==
    \E com \in OpaqueCommands :
        /\ dc_alive /\ Len(dc.log) < MaxLog
        /\ dc' = DeferredContext_parse(dc, com)
        /\ UNCHANGED <<rec, calls, caller_buf, replayed, dc_alive>>

DcUpdateBuffer ==
    \E a \in BufferArgs, data \in FixedDatas :
        /\ dc_alive /\ Len(dc.log) < MaxLog
        /\ dc' = DeferredContext_update_buffer(dc, a[1], data, a[2])
        /\ UNCHANGED <<rec, calls, caller_buf, replayed, dc_alive>>

DcUpdateTexture ==
    \E a \in TextureArgs, data \in FixedDatas :
        /\ dc_alive /\ Len(dc.log) < MaxLog
        /\ dc' = DeferredContext_update_texture(dc, a[1], a[2], a[3], data, a[4])
        /\ UNCHANGED <<rec, calls, caller_buf, replayed, dc_alive>>

\* The finish step of the submission layer; a list already held is reused.
DcFinish ==
    /\ dc_alive /\ Len(dc.log) < MaxLog
    /\ dc.list = None
    /\ dc' = DeferredContext_finish(dc)
    /\ UNCHANGED <<rec, calls, caller_buf, replayed, dc_alive>>

DcDrop ==
    /\ dc_alive
    /\ dc' = DeferredContext_drop(dc)
    /\ dc_alive' = FALSE
    /\ UNCHANGED <<rec, calls, caller_buf, replayed>>

NextDC ==
    \/ DcReset
    \/ DcParse
    \/ DcUpdateBuffer
    \/ DcUpdateTexture
    \/ DcFinish
    \/ DcDrop

SpecDC == Init /\ [][NextDC]_vars

\* ----------------- the same calls made on a CommandList and a DeferredContext
EqParse ==
    \E com \in OpaqueCommands :
        /\ Len(calls[1]) < MaxOps
        /\ CL_parse(1, com)
        /\ dc' = DeferredContext_parse(dc, com)
        /\ UNCHANGED <<caller_buf, replayed, dc_alive>>

EqUpdateBuffer ==
    \E a \in BufferArgs, data \in Datas :
        /\ Len(calls[1]) < MaxOps
        /\ CL_update_buffer(1, a[1], data, a[2])
        /\ dc' = DeferredContext_update_buffer(dc, a[1], data, a[2])
        /\ UNCHANGED <<caller_buf, replayed, dc_alive>>

EqUpdateTexture ==
    \E a \in TextureArgs, data \in Datas :
        /\ Len(calls[1]) < MaxOps
        /\ CL_update_texture(1, a[1], a[2], a[3], data, a[4])
        /\ dc' = DeferredContext_update_texture(dc, a[1], a[2], a[3], data, a[4])
        /\ UNCHANGED <<caller_buf, replayed, dc_alive>>

NextEq ==
    \/ EqParse
    \/ EqUpdateBuffer
    \/ EqUpdateTexture

SpecEq == Init /\ [][NextEq]_vars

\* ------------------------------- two CommandLists, one thread on each of them
PairReset ==
    \E r \in Recorders :
        /\ Len(calls[r]) < MaxPairOps
        /\ CL_reset(r)
        /\ UNCHANGED <<caller_buf, replayed, dc, dc_alive>>

PairParse ==
    \E r \in Recorders, com \in OpaqueCommands :
        /\ Len(calls[r]) < MaxPairOps
        /\ CL_parse(r, com)
        /\ UNCHANGED <<caller_buf, replayed, dc, dc_alive>>

PairUpdateBuffer ==
    \E r \in Recorders, data \in FixedDatas :
        /\ Len(calls[r]) < MaxPairOps
        /\ CL_update_buffer(r, "B1", data, Len(data))
        /\ UNCHANGED <<caller_buf, replayed, dc, dc_alive>>

PairUpdateTexture ==
    \E r \in Recorders, a \in TextureArgs :
        /\ Len(calls[r]) < MaxPairOps
        /\ CL_update_texture(r, a[1], a[2], a[3], <<r>>, a[4])
        /\ UNCHANGED <<caller_buf, replayed, dc, dc_alive>>

NextPair ==
    \/ PairReset
    \/ PairParse
    \/ PairUpdateBuffer
    \/ PairUpdateTexture

SpecPair == Init /\ [][NextPair]_vars

\* ------------------------------------------- what the properties speak of
\* The calls made on a recorder since its construction or its last reset.
RECURSIVE SinceReset(_)
SinceReset(h) ==
    IF h = <<>> THEN <<>>
    ELSE IF h[Len(h)][1] = "reset" THEN <<>>
    ELSE Append(SinceReset(SubSeq(h, 1, Len(h) - 1)), h[Len(h)])

IsUpdate(call) == call[1] \in {"update_buffer", "update_texture"}

\* The bytes passed to an update call, as they were at call time.
BytesOf(call) == IF call[1] = "update_buffer" THEN call[3] ELSE call[5]

HasPayload(com) == com.tag \in {"UpdateBuffer", "UpdateTexture"}

\* The command records the call: the same operation with the same arguments.
Records(com, call) ==
    CASE call[1] = "parse" -> com = call[2]
      [] call[1] = "update_buffer" ->
            /\ com.tag = "UpdateBuffer"
            /\ com.buf = call[2]
            /\ com.offset = call[4]
      [] call[1] = "update_texture" ->
            /\ com.tag = "UpdateTexture"
            /\ com.tex = call[2]
            /\ com.kind = call[3]
            /\ com.face = call[4]
            /\ com.image = call[6]
      [] OTHER -> FALSE

\* The native call a recorded call stands for, issued on its own.
NativeOf(call) ==
    CASE call[1] = "parse" -> [on |-> "ctx", call |-> call[2].tag]
      [] call[1] = "update_buffer" ->
            execute_update_buffer(<<>>, call[2], call[3], call[4])[1]
      [] OTHER ->
            execute_update_texture(<<>>, call[2], call[3], call[4], call[5], call[6])[1]

\* Sum of the payload lengths of the first n calls of h.
RECURSIVE PayloadBefore(_, _)
PayloadBefore(h, n) ==
    IF n = 0 THEN 0
    ELSE PayloadBefore(h, n - 1) + (IF IsUpdate(h[n]) THEN Len(BytesOf(h[n])) ELSE 0)

ApplyCall(self, call) ==
    CASE call[1] = "reset" -> CommandList_reset(self)
      [] call[1] = "parse" -> CommandList_parse(self, call[2])
      [] call[1] = "update_buffer" ->
            CommandList_update_buffer(self, call[2], call[3], call[4])
      [] OTHER ->
            CommandList_update_texture(self, call[2], call[3], call[4], call[5], call[6])

\* The recorder a history of calls produces when nothing else runs.
RECURSIVE RunAlone(_)
RunAlone(h) ==
    IF h = <<>> THEN CommandList_new
    ELSE ApplyCall(RunAlone(SubSeq(h, 1, Len(h) - 1)), h[Len(h)])

Count(log, e) == Cardinality({i \in 1..Len(log) : log[i] = e})

IsRecording(e) ==
    e.call \notin {"ClearState", "Release", "FinishCommandList"}

\* The compiled lists finished by the recorder and not released since.
LiveLists(log) ==
    {i \in 1..Len(Finished(log)) : Count(log, ReleaseList(i)) = 0}

\* --------------------------------------------------------------- properties
\* C1: the command sequence of a CommandList holds exactly one command per
\* parse / update_buffer / update_texture call made since its construction or
\* last reset, in call order, and a replay issues the native calls of those
\* calls in that same order.
C1_OrderPreserved ==
    LET h == SinceReset(calls[1])
        cmds == rec[1].cmds
    IN  /\ Len(cmds) = Len(h)
        /\ \A i \in 1..Len(h) : Records(cmds[i], h[i])
        /\ replayed.done =>
              /\ Len(replayed.out) = Len(h)
              /\ \A i \in 1..Len(h) : replayed.out[i] = NativeOf(h[i])

C1_Witness ==
    LET h == SinceReset(calls[1])
    IN  /\ replayed.done
        /\ Len(h) = 2
        /\ h[1][1] = "update_buffer"
        /\ h[2][1] = "parse"

\* C2: the bytes a recorded update command resolves to through its payload
\* reference equal the bytes passed at call time, whatever the caller does to
\* its buffer afterwards and whatever is recorded later, until the next reset.
C2_PayloadIsolated ==
    LET h == SinceReset(calls[1])
        self == rec[1]
    IN  \A i \in 1..Len(h) :
            IsUpdate(h[i]) =>
                /\ i <= Len(self.cmds)
                /\ HasPayload(self.cmds[i])
                /\ self.cmds[i].ptr.offset + self.cmds[i].ptr.size <= Len(self.data)
                /\ DataBuffer_get(self.data, self.cmds[i].ptr) = BytesOf(h[i])
                /\ replayed.done =>
                      /\ i <= Len(replayed.out)
                      /\ replayed.out[i].bytes = BytesOf(h[i])

C2_Witness ==
    LET h == SinceReset(calls[1])
    IN  /\ Len(h) = 2
        /\ IsUpdate(h[1]) /\ IsUpdate(h[2])
        /\ BytesOf(h[1]) # <<>>
        /\ BytesOf(h[1]) # BytesOf(h[2])
        /\ ~caller_buf.live
        /\ replayed.done

\* The state a reset leaves: that of a freshly constructed CommandList.
C3_ResetState ==
    (calls[1] # <<>> /\ calls[1][Len(calls[1])][1] = "reset") =>
        /\ rec[1] = CommandList_new
        /\ Len(rec[1].data) = 0
        /\ Replay(rec[1]) = <<>>
        /\ replayed.done => replayed.out = <<>>

\* A reset step taken by a recorder that is as freshly constructed.
C3_ResetStep ==
    (calls'[1] = Append(calls[1], <<"reset">>) /\ rec[1] = CommandList_new)
        => rec'[1] = rec[1]

\* C3: after reset the CommandList is as a freshly constructed one (no
\* command, data buffer of length 0, nothing replayed), and a reset of a
\* recorder that is already so, a second reset in a row included, changes
\* nothing.
C3_ResetIdempotent == [](C3_ResetState) /\ [][C3_ResetStep]_vars

C3_Witness ==
    /\ Len(calls[1]) = 2
    /\ IsUpdate(calls[1][1])
    /\ BytesOf(calls[1][1]) # <<>>
    /\ calls[1][2][1] = "reset"
    /\ replayed.done

\* C4: the native calls a replay of the CommandList issues equal, call for
\* call and argument for argument, those the DeferredContext issued on its
\* context for the same parse / update_buffer / update_texture calls.
C4_StrategyEquivalent == Replay(rec[1]) = dc.log

C4_Witness ==
    /\ Len(dc.log) = 2
    /\ dc.log[1].call = "UpdateSubresource"
    /\ dc.log[1].bytes # <<>>
    /\ dc.log[2].call = "Draw"

\* C5: over new -> calls -> drop, the wrapped device context is released
\* exactly once: never while the recorder lives, once when it is dropped.
C5_ReleasedOnce ==
    Count(dc.log, ReleaseContext) = (IF dc_alive THEN 0 ELSE 1)

\* A step in which a parse / update_buffer / update_texture call reaches the
\* wrapped context is taken with no compiled list held.
C6_RecordStep ==
    (Len(dc'.log) > Len(dc.log) /\ IsRecording(dc'.log[Len(dc'.log)]))
        => dc.list = None

\* C6: no recording call (parse, update_buffer, update_texture) reaches the
\* wrapped context while the recorder holds a compiled list, and the recorder
\* never has two live compiled lists.
C6_ListClearedBeforeRecording ==
    [](Cardinality(LiveLists(dc.log)) <= 1) /\ [][C6_RecordStep]_vars

\* C7: one update_buffer(B, bytes, off) on an empty CommandList records
\* exactly one UpdateBuffer command with B, off and a payload reference that
\* resolves to bytes, and its replay is exactly one buffer update of B at off
\* with those bytes; one update_texture records exactly one UpdateTexture
\* command with the texture, kind, face and image it was given.
C7_SingleUpdate ==
    LET h == SinceReset(calls[1])
        self == rec[1]
    IN  (Len(h) = 1 /\ IsUpdate(h[1])) =>
            /\ Len(self.cmds) = 1
            /\ self.cmds[1].ptr.size = Len(BytesOf(h[1]))
            /\ DataBuffer_get(self.data, self.cmds[1].ptr) = BytesOf(h[1])
            /\ h[1][1] = "update_buffer" =>
                  /\ self.cmds[1] =
                        Command_UpdateBuffer(h[1][2], self.cmds[1].ptr, h[1][4])
                  /\ Replay(self) =
                        <<[on |-> "ctx", call |-> "UpdateSubresource", res |-> h[1][2],
                           dst |-> h[1][4], len |-> Len(h[1][3]), bytes |-> h[1][3]]>>
            /\ h[1][1] = "update_texture" =>
                  self.cmds[1] =
                      Command_UpdateTexture(h[1][2], h[1][3], h[1][4],
                                            self.cmds[1].ptr, h[1][6])
            /\ replayed.done => replayed.out = Replay(self)

C7_Witness ==
    /\ calls[1] = <<<<"update_buffer", "B2", <<1>>, 8>>>>
    /\ replayed.done
    /\ Len(replayed.out) = 1

\* A reset step: the held list, if any, is released and the field cleared,
\* then ClearState is issued.
C8_ResetStep ==
    (dc_alive' /\ Len(dc'.log) > Len(dc.log) /\ dc'.log[Len(dc'.log)] = ClearState) =>
        /\ dc'.list = None
        /\ dc'.log = dc.log \o (IF dc.list # None THEN <<ReleaseList(dc.list)>> ELSE <<>>)
                            \o <<ClearState>>

\* Every release of a compiled list is the only one of that list, leaves the
\* field no longer naming it, and is followed at once by ClearState.
C8_ReleaseOrder ==
    \A i \in 1..Len(dc.log) :
        dc.log[i].on = "list" =>
            /\ Count(dc.log, dc.log[i]) = 1
            /\ dc.list # dc.log[i].id
            /\ i < Len(dc.log)
            /\ dc.log[i + 1] = ClearState

\* C8: a reset releases the compiled list the recorder holds exactly once,
\* clears the field and only then issues ClearState; with no list held it
\* issues ClearState alone, so a second reset in a row releases nothing
\* further; the field is None after every reset.
C8_ResetReleasesList == [](C8_ReleaseOrder) /\ [][C8_ResetStep]_vars

C8_Witness ==
    /\ dc.list = None
    /\ dc.log = <<FinishCommandList(1), ReleaseList(1), ClearState, ClearState>>

\* C9: every UpdateBuffer / UpdateTexture command of a CommandList carries the
\* payload reference its own data buffer returned for that call, which lies
\* within the buffer's length; parse appends its command unchanged and adds
\* nothing to the data buffer.
C9_PayloadRefsOwned ==
    LET h == SinceReset(calls[1])
        self == rec[1]
    IN  /\ Len(self.cmds) = Len(h)
        /\ Len(self.data) = PayloadBefore(h, Len(h))
        /\ \A i \in 1..Len(h) :
              /\ h[i][1] = "parse" => self.cmds[i] = h[i][2]
              /\ IsUpdate(h[i]) =>
                    /\ HasPayload(self.cmds[i])
                    /\ self.cmds[i].ptr = [offset |-> PayloadBefore(h, i - 1),
                                           size |-> Len(BytesOf(h[i]))]
                    /\ self.cmds[i].ptr.offset + self.cmds[i].ptr.size <= Len(self.data)

C9_Witness ==
    LET h == SinceReset(calls[1])
    IN  /\ Len(h) = 2
        /\ h[1][1] = "update_texture" /\ BytesOf(h[1]) # <<>>
        /\ h[2][1] = "update_buffer" /\ BytesOf(h[2]) # <<>>
        /\ rec[1].cmds[2].ptr.offset > 0

====
